---- MODULE Spec2Model ----
(***************************************************************************)
(* Model of the query-tool server: the persisted GraphStore with its lazy  *)
(* build state machine (src/src/lib/graph-store.ts) and the query_index    *)
(* tool handler with the server start-up (src/src/types/index.ts).         *)
(*                                                                         *)
(* The program runs on one cooperative thread.  Every action below is one  *)
(* run-to-completion segment of the code: from a call or a resumption up   *)
(* to the next await.                                                      *)
(***************************************************************************)
EXTENDS Integers, Sequences, FiniteSets, TLC

\* ---------------------------------------------------------------- bounds
NumCallers == 2     \* direct callers of the store API, besides main()
NumQueries == 2     \* concurrent query_index invocations
MaxBuilds == 2      \* pipeline invocations the model can represent
MaxWorkers == 1     \* buildGraphInBackground calls the model can represent
MaxReads == 2       \* getChunks() / getEmbeddings() calls per store
MaxHits == 3        \* hits one search returns

\* ------------------------------------------------------ program constants
PARALLEL_BATCH_LIMIT == 50
BATCH_SIZE == 1000              \* graph-worker.ts

\* ------------------------------------------------------------ vocabulary
NoArg == -1         \* an omitted optional argument (undefined)
NullRef == 0        \* null, for promise and graph references
NoError == "null"   \* buildError === null

IDLE == "idle"
BUILDING == "building"
READY == "ready"
FAILED == "failed"
GraphBuildState == {IDLE, BUILDING, READY, FAILED}

Modes == {"auto", "vector", "graph"}
Dims == {0, 2}                  \* dimension values: unset and set
ChunkCounts == {0, 3, 51}       \* index.json chunkCount values
BatchSizeArgs == {NoArg, 1}     \* load(requestedBatchSize?) arguments

Callers == 0 .. NumCallers      \* 0 is main()'s fire-and-forget preload
DirectCallers == 1 .. NumCallers
Queries == 1 .. NumQueries

\* graph-structure.bin.meta.json: missing, unparsable, or a GraphCacheMeta.
\* sameThreshold stands for meta.threshold === threshold and newer for
\* meta.createdAt >= index.lastUpdated.
Meta(kind, version, dimension, chunkCount, sameThreshold, newer) ==
    [kind |-> kind, version |-> version, dimension |-> dimension,
     chunkCount |-> chunkCount, sameThreshold |-> sameThreshold,
     newer |-> newer]
NoMeta == Meta("missing", "none", 0, 0, FALSE, FALSE)

\* The graph directory on disk.  configFile and indexFile are what load()
\* finds; chunkCount and batchSize are the fields of index.json; the batch
\* files were written in partitions of batchSize records, and badChunks and
\* badEmbeddings are the batch numbers whose file is missing or unreadable.
\* graphCache is whether graph-structure.bin exists, cacheMeta its meta file.
Disk(dir, configFile, dimension, indexFile, chunkCount, written, badC, badE) ==
    [dir |-> dir, configFile |-> configFile, dimension |-> dimension,
     indexFile |-> indexFile, chunkCount |-> chunkCount,
     batchSize |-> written, badChunks |-> badC, badEmbeddings |-> badE,
     graphCache |-> FALSE, cacheMeta |-> NoMeta]

Disks ==
    { Disk(FALSE, "missing", 0, "missing", 0, 1000, {}, {}) }
    \cup
    { Disk(TRUE, c, 2, "ok", 3, 1000, {}, {}) :
        c \in {"missing", "unparsable", "badversion"} }
    \cup
    { Disk(TRUE, "ok", d, "ok", n, 1000, {}, {}) :
        d \in Dims, n \in ChunkCounts }
    \cup
    { Disk(TRUE, "ok", 2, "unparsable", 3, 1000, {}, {}) }

\* Command line: --enable-graph, --preload-graph, --dimensions.  batchSize
\* is the second argument of new GraphStore(...), which index.ts leaves out.
ServerConfigs ==
    [enableGraph : BOOLEAN, preloadGraph : BOOLEAN, dimensions : Dims,
     batchSize : {NoArg}]

\* Raw hits of the two search collaborators.
NoIdx == -1
VectorHits ==
    { << [text |-> "v1", score |-> 1, chunkIndex |-> 4],
         [text |-> "v2", score |-> 3, chunkIndex |-> NoIdx] >> }
GraphHits ==
    { << [text |-> "g1", score |-> 2, chunkIndex |-> 7],
         [text |-> "g2", score |-> 5, chunkIndex |-> 1] >> }

VARIABLES
    disk,           \* the graph-data directory (fixed per run)
    cfg,            \* ServerConfig (fixed per run)
    config,         \* GraphStore.config
    index,          \* GraphStore.index
    batchSize,      \* GraphStore.batchSize
    graphState,     \* GraphStore.graphState
    graphInstance,  \* GraphStore.graphInstance (NullRef or a handle)
    buildPromise,   \* GraphStore.buildPromise (NullRef or a promise)
    buildError,     \* GraphStore.buildError
    builds,         \* the promises returned by buildGraphRAGInternal
    callers,        \* getOrBuildGraphRAG calls in progress, per caller
    queries,        \* query_index executions
    mainPc,         \* position of module start-up and main() of index.ts,
                    \* or "library" for a store used without index.ts
    hasGraphData,   \* const hasGraphData of index.ts
    lanceDb,        \* lanceDb !== null
    workers,        \* the buildGraphInBackground calls and, for each that
                    \* started one, its worker thread
    chunksCache,    \* GraphStore.chunksCache: batch number -> records
    embeddingsCache,\* GraphStore.embeddingsCache: batch number -> vectors
    batchLog,       \* per batch file: the reads made and what they returned
    loadReturn,     \* what the latest load() call returned
    probe           \* a function under test: its input and its result

batchVars == << chunksCache, embeddingsCache, batchLog >>

vars == << disk, cfg, config, index, batchSize, graphState, graphInstance,
           buildPromise, buildError, builds, callers, queries, mainPc,
           hasGraphData, lanceDb, workers, batchVars, loadReturn, probe >>

storeVars == << config, index, batchSize, graphState, graphInstance,
                buildPromise, buildError, builds >>

\* --------------------------------------------------------------- helpers
NullConfig == [loaded |-> FALSE, dimension |-> 0]
NullIndex == [loaded |-> FALSE, chunkCount |-> 0]
DEFAULT_BATCH_SIZE == 1000

CeilDiv(a, b) == (a + b - 1) \div b
Min(a, b) == IF a < b THEN a ELSE b

\* Variant: the thresholds belong to the smaller size.
getOptimalBatchSize_Inclusive(chunkCount, requestedBatchSize) ==
    IF requestedBatchSize # NoArg /\ requestedBatchSize # 0
    THEN requestedBatchSize
    ELSE IF chunkCount <= 5000 THEN 1000
    ELSE IF chunkCount <= 50000 THEN 5000
    ELSE IF chunkCount <= 200000 THEN 10000
    ELSE 20000

\* getOptimalBatchSize(chunkCount, requestedBatchSize?)
getOptimalBatchSize(chunkCount, requestedBatchSize) ==
    IF requestedBatchSize # NoArg /\ requestedBatchSize # 0
    THEN requestedBatchSize
    ELSE IF chunkCount < 5000 THEN 1000
    ELSE IF chunkCount < 50000 THEN 5000
    ELSE IF chunkCount < 200000 THEN 10000
    ELSE 20000

\* Variant: the version of config.json is not looked at.
loadConfig_AnyVersion(d) ==
    IF d.configFile \in {"ok", "badversion"}
    THEN [loaded |-> TRUE, dimension |-> d.dimension]
    ELSE [loaded |-> FALSE, dimension |-> 0]

\* loadConfig(): null unless the file exists, parses and has version "1.0"
loadConfig(d) ==
    IF d.configFile = "ok"
    THEN [loaded |-> TRUE, dimension |-> d.dimension]
    ELSE NullConfig

\* loadIndex(): null unless the file exists and parses
loadIndex(d) ==
    IF d.indexFile = "ok"
    THEN [loaded |-> TRUE, chunkCount |-> d.chunkCount]
    ELSE NullIndex

\* Variant: an empty index counts as data.
hasData_EmptyToo(idx) == idx.loaded

\* hasData()
hasData(idx) == idx.loaded /\ idx.chunkCount > 0

\* Variant: load() reports on the index alone.
loadResult_IndexOnly(d, c, i) == d.dir /\ i.loaded

\* The value load() returns, given the fields it has just set.
loadResult(d, c, i) == d.dir /\ c.loaded /\ i.loaded

\* constructor(outputDir, batchSize?): this.batchSize
constructorBatchSize(arg) ==
    IF arg # NoArg /\ arg # 0 THEN arg ELSE DEFAULT_BATCH_SIZE

\* ------------------------------------------------------------ batch files
EmptyMap == [b \in {} |-> << >>]
NoLog == [reads |-> 0, touches |-> 0, first |-> << >>, last |-> << >>]

\* The global record numbers stored in batch file b of a directory written
\* in partitions of d.batchSize records.
BatchRecords(d, b) ==
    IF b * d.batchSize < d.chunkCount
    THEN [k \in 1 .. Min(d.batchSize, d.chunkCount - b * d.batchSize) |->
              b * d.batchSize + k - 1]
    ELSE << >>

\* What the body of loadChunkBatch finds past the cache lookup: ok is
\* whether the file exists and parses, records what it holds.
chunkFile(d, b) ==
    [ok |-> b * d.batchSize < d.chunkCount /\ b \notin d.badChunks,
     records |-> BatchRecords(d, b)]

\* The same for loadEmbeddingBatch, which also needs this.config and
\* decodes every vector with this.config.dimension.
embeddingFile(d, c, b) ==
    [ok |-> /\ b * d.batchSize < d.chunkCount
            /\ b \notin d.badEmbeddings
            /\ c.loaded,
     records |-> [k \in 1 .. Len(BatchRecords(d, b)) |->
                     [id |-> BatchRecords(d, b)[k], dim |-> c.dimension]]]

chunkFiles(d, bs) == [b \in bs |-> chunkFile(d, b)]
embeddingFiles(d, c, bs) == [b \in bs |-> embeddingFile(d, c, b)]

\* loadChunkBatch / loadEmbeddingBatch for one batch number: the cached
\* records, else the records of a readable file, else [].
loadBatch(cache, files, b) ==
    IF b \in DOMAIN cache THEN cache[b]
    ELSE IF files[b].ok THEN files[b].records
    ELSE << >>

\* Variant: a batch that could not be read is remembered as empty.
cacheAfter_NegativeCaching(cache, files) ==
    [b \in DOMAIN cache \cup DOMAIN files |->
        IF b \in DOMAIN cache THEN cache[b]
        ELSE IF files[b].ok THEN files[b].records ELSE << >>]

\* The cache after one read of each batch in DOMAIN files: only a batch
\* whose file was read and parsed is stored.
cacheAfter(cache, files) ==
    [b \in DOMAIN cache \cup {x \in DOMAIN files : files[x].ok} |->
        IF b \in DOMAIN cache THEN cache[b] ELSE files[b].records]

\* The log after the same reads: a read that misses the cache goes to the
\* file system.
logAfter(log, cache, files) ==
    [b \in DOMAIN log \cup DOMAIN files |->
        IF b \notin DOMAIN files THEN log[b]
        ELSE LET old == IF b \in DOMAIN log THEN log[b] ELSE NoLog
                 ret == loadBatch(cache, files, b)
             IN  [reads |-> old.reads + 1,
                  touches |-> old.touches
                              + (IF b \in DOMAIN cache THEN 0 ELSE 1),
                  first |-> IF old.reads = 0 THEN ret ELSE old.first,
                  last |-> ret]]

\* One loadChunkBatch call for each batch number in bs.
ReadChunkBatches(bs) ==
    /\ chunksCache' = cacheAfter(chunksCache, chunkFiles(disk, bs))
    /\ batchLog' = [batchLog EXCEPT !.chunks =
                       logAfter(@, chunksCache, chunkFiles(disk, bs))]

\* One loadEmbeddingBatch call for each batch number in bs.
ReadEmbeddingBatches(bs) ==
    /\ embeddingsCache' =
          cacheAfter(embeddingsCache, embeddingFiles(disk, config, bs))
    /\ batchLog' = [batchLog EXCEPT !.embeddings =
          logAfter(@, embeddingsCache, embeddingFiles(disk, config, bs))]

\* The callbacks of one wave: both loads for each batch number in bs.
ReadBatches(bs) ==
    /\ chunksCache' = cacheAfter(chunksCache, chunkFiles(disk, bs))
    /\ embeddingsCache' =
          cacheAfter(embeddingsCache, embeddingFiles(disk, config, bs))
    /\ batchLog' =
          [chunks |-> logAfter(batchLog.chunks, chunksCache,
                               chunkFiles(disk, bs)),
           embeddings |-> logAfter(batchLog.embeddings, embeddingsCache,
                                   embeddingFiles(disk, config, bs))]

\* Variant: a wave takes every batch that is left.
WaveBatches_All(waveStart, totalBatches) == waveStart .. totalBatches - 1

\* The batch numbers of the wave that starts at waveStart.
WaveBatches(waveStart, totalBatches) ==
    waveStart .. Min(waveStart + PARALLEL_BATCH_LIMIT, totalBatches) - 1


\* ------------------------------------------------- build pipeline records
\* One record per call of buildGraphRAGInternal: the promise it returned
\* (status, value, error) and the position of its body (pc and locals).
\* reads lists the batch numbers in the order their loaders were called,
\* waveResults holds the results of the wave awaited, allChunks and
\* allEmbeddings are the aggregate lists.
NewBuild(status, value, error, pc, dim) ==
    [status |-> status, value |-> value, error |-> error, pc |-> pc,
     dim |-> dim, waveStart |-> 0, totalBatches |-> 0, batchesRead |-> 0,
     cacheReads |-> 0, engineCalls |-> 0,
     cached |-> NullRef, cachePath |-> "none",
     reads |-> << >>, waveResults |-> << >>,
     allChunks |-> << >>, allEmbeddings |-> << >>]

\* Variant: a valid cache is deserialized into a graph.
loadGraphFromCache_Deserialize(dim) ==
    LET meta == disk.cacheMeta
    IN  IF /\ disk.graphCache /\ meta.kind = "meta"
           /\ meta.version = "1.0" /\ meta.dimension = dim
           /\ meta.sameThreshold /\ meta.chunkCount = index.chunkCount
           /\ meta.newer
        THEN 1
        ELSE NullRef

\* loadGraphFromCache(dimension, threshold).  The function has no await:
\* its body runs inside the call.  Every path returns null.
loadGraphFromCache(dim) ==
    LET meta == disk.cacheMeta
    IN  IF ~disk.graphCache THEN NullRef
        ELSE IF meta.kind = "missing" THEN NullRef
        ELSE IF meta.kind = "unparsable" THEN NullRef
        ELSE IF \/ meta.version # "1.0" \/ meta.dimension # dim
                \/ ~meta.sameThreshold
                \/ meta.chunkCount # index.chunkCount
        THEN NullRef
        ELSE IF ~meta.newer THEN NullRef
        ELSE NullRef

\* The return statement loadGraphFromCache leaves by.
cacheReturnPath(dim) ==
    LET meta == disk.cacheMeta
    IN  IF ~disk.graphCache THEN "no cache file"
        ELSE IF meta.kind = "missing" THEN "no meta file"
        ELSE IF meta.kind = "unparsable" THEN "catch"
        ELSE IF \/ meta.version # "1.0" \/ meta.dimension # dim
                \/ ~meta.sameThreshold
                \/ meta.chunkCount # index.chunkCount
        THEN "stale"
        ELSE IF ~meta.newer THEN "older than data"
        ELSE "valid"

\* saveGraphToCache(graphRag, dim, thresh, allChunks.length): only the
\* meta file is written, graph-structure.bin never is.
saveGraphToCache(d, dim, chunkCount) ==
    [d EXCEPT !.cacheMeta = Meta("meta", "1.0", dim, chunkCount, TRUE, TRUE)]

\* Variant: the cache lookup comes before the dimension check.
buildGraphRAGInternal_CacheFirst(dimension) ==
    IF ~hasData(index) \/ ~config.loaded \/ ~index.loaded
    THEN NewBuild("fulfilled", NullRef, NoError, "done", 0)
    ELSE LET dim == IF dimension # NoArg THEN dimension ELSE config.dimension
         IN  IF dim = 0
             THEN [NewBuild("rejected", NullRef, "Graph dimension not set",
                            "done", dim) EXCEPT !.cacheReads = 1]
             ELSE [NewBuild("pending", NullRef, NoError, "cache", dim)
                      EXCEPT !.cacheReads = 1,
                             !.cached = loadGraphFromCache(dim),
                             !.cachePath = cacheReturnPath(dim)]

\* buildGraphRAGInternal(dimension?, threshold?) from its call to its first
\* await: the data check, the dimension check and the cache lookup.
buildGraphRAGInternal(dimension) ==
    IF ~hasData(index) \/ ~config.loaded \/ ~index.loaded
    THEN NewBuild("fulfilled", NullRef, NoError, "done", 0)
    ELSE LET dim == IF dimension # NoArg THEN dimension ELSE config.dimension
         IN  IF dim = 0
             THEN NewBuild("rejected", NullRef, "Graph dimension not set",
                           "done", dim)
             ELSE [NewBuild("pending", NullRef, NoError, "cache", dim)
                      EXCEPT !.cacheReads = 1,
                             !.cached = loadGraphFromCache(dim),
                             !.cachePath = cacheReturnPath(dim)]

\* waveBatches.map(async (batchNum) => ...): the callbacks run one after
\* the other, each to its end, and what they return is kept in the order
\* of waveBatches.
WaveResults(waveStart, waveEnd) ==
    LET bs == waveStart .. waveEnd - 1
    IN  [k \in 1 .. waveEnd - waveStart |->
            [batchNum |-> waveStart + k - 1,
             chunks |-> loadBatch(chunksCache, chunkFiles(disk, bs),
                                  waveStart + k - 1),
             embeddings |-> loadBatch(embeddingsCache,
                                      embeddingFiles(disk, config, bs),
                                      waveStart + k - 1)]]

\* The batches of one wave are read synchronously inside Promise.all(map).
ReadWave(b, waveStart, totalBatches) ==
    LET waveEnd == waveStart
                   + Cardinality(WaveBatches(waveStart, totalBatches))
    IN  [b EXCEPT !.pc = "wave", !.waveStart = waveStart,
                  !.totalBatches = totalBatches,
                  !.batchesRead = @ + (waveEnd - waveStart),
                  !.reads = @ \o [k \in 1 .. waveEnd - waveStart |->
                                     waveStart + k - 1],
                  !.waveResults = WaveResults(waveStart, waveEnd)]

RECURSIVE FlattenChunks(_)
FlattenChunks(results) ==
    IF results = << >> THEN << >>
    ELSE Head(results).chunks \o FlattenChunks(Tail(results))

RECURSIVE FlattenEmbeddings(_)
FlattenEmbeddings(results) ==
    IF results = << >> THEN << >>
    ELSE Head(results).embeddings \o FlattenEmbeddings(Tail(results))

\* Variant: the results of a wave are put in front of the running totals.
Accumulate_InFront(b) ==
    [b EXCEPT !.allChunks = FlattenChunks(b.waveResults) \o @,
              !.allEmbeddings = FlattenEmbeddings(b.waveResults) \o @,
              !.waveResults = << >>]

\* "Accumulate results from this wave": push every result of the wave, in
\* the order of waveResults, onto allChunks and allEmbeddings.
Accumulate(b) ==
    [b EXCEPT !.allChunks = @ \o FlattenChunks(b.waveResults),
              !.allEmbeddings = @ \o FlattenEmbeddings(b.waveResults),
              !.waveResults = << >>]

\* createGraph and the return of the new handle h, or the exception of
\* the graph engine.
FinishBuild(b, h, engineOk) ==
    IF engineOk
    THEN [b EXCEPT !.pc = "done", !.status = "fulfilled", !.value = h,
                   !.engineCalls = @ + 1]
    ELSE [b EXCEPT !.pc = "done", !.status = "rejected",
                   !.error = "createGraph failed", !.engineCalls = @ + 1]

\* The directory after createGraph: on success the cache meta is saved
\* (fire-and-forget, the body of saveGraphToCache is synchronous).
diskAfterBuild(b, engineOk) ==
    IF engineOk THEN saveGraphToCache(disk, b.dim, Len(b.allChunks))
    ELSE disk

\* After the cache lookup returned null: new GraphRAG, totalBatches, and
\* the first wave (or, with no batch at all, straight to createGraph).
BuildAfterCache(i) ==
    /\ i \in 1 .. Len(builds)
    /\ builds[i].pc = "cache"
    /\ LET cached == builds[i].cached
           totalBatches == CeilDiv(index.chunkCount, batchSize)
       IN  IF cached # NullRef
           THEN /\ builds' = [builds EXCEPT ![i] =
                      [@ EXCEPT !.pc = "done", !.status = "fulfilled",
                                !.value = cached]]
                /\ UNCHANGED << batchVars, disk >>
           ELSE IF 0 < totalBatches
           THEN /\ builds' = [builds EXCEPT ![i] =
                                 ReadWave(@, 0, totalBatches)]
                /\ ReadBatches(WaveBatches(0, totalBatches))
                /\ UNCHANGED disk
           ELSE /\ \E engineOk \in BOOLEAN :
                     /\ builds' = [builds EXCEPT ![i] =
                                      FinishBuild(@, i, engineOk)]
                     /\ disk' = diskAfterBuild(builds[i], engineOk)
                /\ UNCHANGED batchVars
    /\ UNCHANGED << loadReturn, probe >>
    /\ UNCHANGED << cfg, config, index, batchSize, graphState,
                    graphInstance, buildPromise, buildError, callers, queries,
                    mainPc, hasGraphData, lanceDb, workers >>

\* After a wave's Promise.all resolved: accumulate, then the next wave or,
\* after the last one, conversion and createGraph.
BuildWave(i) ==
    /\ i \in 1 .. Len(builds)
    /\ builds[i].pc = "wave"
    /\ LET next == builds[i].waveStart + PARALLEL_BATCH_LIMIT
           acc == Accumulate(builds[i])
       IN  IF next < builds[i].totalBatches
           THEN /\ builds' = [builds EXCEPT ![i] =
                                 ReadWave(acc, next, builds[i].totalBatches)]
                /\ ReadBatches(WaveBatches(next, builds[i].totalBatches))
                /\ UNCHANGED disk
           ELSE /\ \E engineOk \in BOOLEAN :
                     /\ builds' = [builds EXCEPT ![i] =
                                      FinishBuild(acc, i, engineOk)]
                     /\ disk' = diskAfterBuild(acc, engineOk)
                /\ UNCHANGED batchVars
    /\ UNCHANGED << loadReturn, probe >>
    /\ UNCHANGED << cfg, config, index, batchSize, graphState,
                    graphInstance, buildPromise, buildError, callers, queries,
                    mainPc, hasGraphData, lanceDb, workers >>

\* ------------------------------------------------------ getOrBuildGraphRAG
\* Variants of the entry branch, each with one check left out.
getOrBuildBranch_NoJoin(state, instance, promise) ==
    IF state = READY /\ instance # NullRef THEN "ready"
    ELSE IF state = FAILED THEN "failed"
    ELSE "start"

getOrBuildBranch_RetryFailed(state, instance, promise) ==
    IF state = READY /\ instance # NullRef THEN "ready"
    ELSE IF state = BUILDING /\ promise # NullRef THEN "join"
    ELSE "start"

getOrBuildBranch_NoReady(state, instance, promise) ==
    IF state = BUILDING /\ promise # NullRef THEN "join"
    ELSE IF state = FAILED THEN "failed"
    ELSE "start"

\* The branch getOrBuildGraphRAG takes on entry.
getOrBuildBranch(state, instance, promise) ==
    IF state = READY /\ instance # NullRef THEN "ready"
    ELSE IF state = BUILDING /\ promise # NullRef THEN "join"
    ELSE IF state = FAILED THEN "failed"
    ELSE "start"

\* "Start building": the state, the pipeline call and the published promise,
\* all before the first await.
StartBuild(dimension) ==
    /\ Len(builds) < MaxBuilds
    /\ graphState' = BUILDING
    /\ builds' = Append(builds, buildGraphRAGInternal(dimension))
    /\ buildPromise' = Len(builds) + 1
    /\ UNCHANGED << config, index, batchSize, graphInstance, buildError >>

\* The fields the starting call leaves in the store once its await returns.
\* Each is a function of the settled promise b and of the old field value.
\* Variant: a null pipeline result puts the store back to idle.
settledState_IdleOnNull(b) ==
    IF b.status = "fulfilled" /\ b.value # NullRef THEN READY
    ELSE IF b.status = "fulfilled" THEN IDLE
    ELSE FAILED

\* Variant: after an exception the store can be asked to build again.
settledState_IdleOnError(b) ==
    IF b.status = "fulfilled" /\ b.value # NullRef THEN READY
    ELSE IF b.status = "fulfilled" THEN FAILED
    ELSE IDLE

settledState(b) ==
    IF b.status = "fulfilled" /\ b.value # NullRef THEN READY ELSE FAILED

\* Variant: the handle is not stored.
settledInstance_NotStored(b, old) == old

settledInstance(b, old) ==
    IF b.status = "fulfilled" /\ b.value # NullRef THEN b.value ELSE old

\* Variant: a null pipeline result is recorded as an error too.
settledError_AlsoOnNull(b, old) ==
    IF b.status = "rejected" THEN b.error
    ELSE IF b.value = NullRef THEN "no graph data"
    ELSE old

settledError(b, old) ==
    IF b.status = "rejected" THEN b.error ELSE old

\* Variant: the promise reference is dropped on completion.
settledPromise_Released(b, old) == NullRef

settledPromise(b, old) == old

CompleteBuild(p) ==
    /\ graphState' = settledState(builds[p])
    /\ graphInstance' = settledInstance(builds[p], graphInstance)
    /\ buildError' = settledError(builds[p], buildError)
    /\ buildPromise' = settledPromise(builds[p], buildPromise)
    /\ UNCHANGED << config, index, batchSize, builds >>

\* What a call resolves to.  kind: "handle", "null" (unavailable), "raised".
Outcome(kind, value, error) == [kind |-> kind, value |-> value, error |-> error]
NoOutcome == Outcome("none", NullRef, NoError)
Returned(value) ==
    Outcome(IF value # NullRef THEN "handle" ELSE "null", value, NoError)

\* The call that started the build: result on success, null in the catch.
starterOutcome(b) ==
    IF b.status = "fulfilled" THEN Returned(b.value) ELSE Returned(NullRef)

\* A call that returned the in-flight promise itself.
joinerOutcome(b) ==
    IF b.status = "fulfilled" THEN Returned(b.value)
    ELSE Outcome("raised", NullRef, b.error)


\* ---------------------------------------------------------------- load()
\* load(requestedBatchSize?): a missing directory returns false and sets
\* nothing; otherwise config, index and (with an index) batchSize are set.
Load(requestedBatchSize) ==
    /\ IF ~disk.dir
       THEN UNCHANGED << config, index, batchSize >>
       ELSE /\ config' = loadConfig(disk)
            /\ index' = loadIndex(disk)
            /\ batchSize' =
                 IF loadIndex(disk).loaded
                 THEN getOptimalBatchSize(loadIndex(disk).chunkCount,
                                          requestedBatchSize)
                 ELSE batchSize
    /\ loadReturn' = IF loadResult(disk, config', index') THEN "true"
                     ELSE "false"
    /\ UNCHANGED << graphState, graphInstance, buildPromise, buildError,
                    builds >>

\* A further load() call on the store by a user of the class.
Reload(requestedBatchSize) ==
    /\ requestedBatchSize \in BatchSizeArgs
    /\ mainPc = "library"
    /\ Load(requestedBatchSize)
    /\ UNCHANGED << batchVars, probe >>
    /\ UNCHANGED << disk, cfg, callers, queries, mainPc, hasGraphData,
                    lanceDb, workers >>

\* getChunks() and getEmbeddings(): nothing without an index, else one
\* load for each batch number below ceil(chunkCount / batchSize).
AllBatches == 0 .. CeilDiv(index.chunkCount, batchSize) - 1

ReadsLeft(log, bs) ==
    \A b \in bs : b \in DOMAIN log => log[b].reads < MaxReads

GetChunks ==
    /\ mainPc = "library"
    /\ IF ~index.loaded
       THEN UNCHANGED batchVars
       ELSE /\ ReadsLeft(batchLog.chunks, AllBatches)
            /\ ReadChunkBatches(AllBatches)
            /\ UNCHANGED embeddingsCache
    /\ UNCHANGED << loadReturn, probe >>
    /\ UNCHANGED << disk, cfg, config, index, batchSize, graphState,
                    graphInstance, buildPromise, buildError, builds, callers,
                    queries, mainPc, hasGraphData, lanceDb, workers >>

GetEmbeddings ==
    /\ mainPc = "library"
    /\ IF ~index.loaded
       THEN UNCHANGED batchVars
       ELSE /\ ReadsLeft(batchLog.embeddings, AllBatches)
            /\ ReadEmbeddingBatches(AllBatches)
            /\ UNCHANGED chunksCache
    /\ UNCHANGED << loadReturn, probe >>
    /\ UNCHANGED << disk, cfg, config, index, batchSize, graphState,
                    graphInstance, buildPromise, buildError, builds, callers,
                    queries, mainPc, hasGraphData, lanceDb, workers >>

\* -------------------------------------------------- buildGraphInBackground
\* Variant: a worker is started whatever the build state is.
preloadStarts_AnyState(state) ==
    hasData(index) /\ config.loaded /\ index.loaded

\* Whether buildGraphInBackground gets past its two early returns.
preloadStarts(state) ==
    state = IDLE /\ hasData(index) /\ config.loaded /\ index.loaded

NoWorkerResult ==
    [success |-> FALSE, error |-> "none", batchSize |-> 0, reads |-> << >>]

\* One call of buildGraphInBackground: the state it found, whether it
\* started a worker thread, and that thread (workerData.dimension, where
\* it is, what it posted back).
WorkerCall(state) ==
    IF preloadStarts(state)
    THEN [seen |-> state, started |-> TRUE, pc |-> "running",
          dimension |-> config.dimension, result |-> NoWorkerResult]
    ELSE [seen |-> state, started |-> FALSE, pc |-> "none",
          dimension |-> 0, result |-> NoWorkerResult]

\* preload: returns at once, or starts a worker thread on the same
\* directory; no field of the store is assigned.
BuildGraphInBackground ==
    /\ Len(workers) < MaxWorkers
    /\ workers' = Append(workers, WorkerCall(graphState))
    /\ mainPc = "library"
    /\ UNCHANGED << batchVars, loadReturn, probe >>
    /\ UNCHANGED << disk, cfg, config, index, batchSize, graphState,
                    graphInstance, buildPromise, buildError, builds, callers,
                    queries, mainPc, hasGraphData, lanceDb >>

\* graph-worker.ts buildGraph: index.json is read again, every batch
\* 0 .. ceil(chunkCount / BATCH_SIZE) - 1 is read with readFileSync and no
\* existence check, any exception ends in { success: false }.
workerBatchOk(d, b) ==
    /\ b * d.batchSize < d.chunkCount
    /\ b \notin d.badChunks
    /\ b \notin d.badEmbeddings

buildGraph(d, engineOk) ==
    LET totalBatches == CeilDiv(d.chunkCount, BATCH_SIZE)
        reads == [k \in 1 .. totalBatches |-> k - 1]
        error == IF d.indexFile # "ok" THEN "index"
                 ELSE IF \E b \in 0 .. totalBatches - 1 : ~workerBatchOk(d, b)
                      THEN "batch"
                 ELSE IF ~engineOk THEN "engine"
                 ELSE "none"
    IN  [success |-> error = "none", error |-> error,
         batchSize |-> BATCH_SIZE,
         reads |-> IF d.indexFile # "ok" THEN << >> ELSE reads]

\* Variant: a successful worker makes the store Ready.
onWorkerMessage_Adopt(state, result) ==
    IF result.success /\ state = IDLE THEN READY ELSE state

\* worker.on("message", ...): the result is logged, nothing is assigned.
onWorkerMessage(state, result) == state

\* A worker thread has run buildGraph and its message arrives.
WorkerMessage(w) ==
    /\ w \in 1 .. Len(workers)
    /\ workers[w].pc = "running"
    /\ \E engineOk \in BOOLEAN :
          LET result == buildGraph(disk, engineOk)
          IN  /\ workers' = [workers EXCEPT ![w] =
                                [@ EXCEPT !.pc = "done", !.result = result]]
              /\ graphState' = onWorkerMessage(graphState, result)
    /\ UNCHANGED << batchVars, loadReturn, probe >>
    /\ UNCHANGED << disk, cfg, config, index, batchSize,
                    graphInstance, buildPromise, buildError, builds, callers,
                    queries, mainPc, hasGraphData, lanceDb >>

\* ------------------------------------------- direct getOrBuildGraphRAG calls
NewCall == [pc |-> "idle", role |-> "none", promise |-> NullRef,
            seen |-> IDLE, result |-> NoOutcome]

\* A call of getOrBuildGraphRAG up to its first await or return, as the
\* caller holds it: role is the branch taken, seen the state it found.
CallRecord ==
    LET branch == getOrBuildBranch(graphState, graphInstance, buildPromise)
    IN  CASE branch = "ready" ->
               [pc |-> "done", role |-> branch, promise |-> NullRef,
                seen |-> graphState, result |-> Returned(graphInstance)]
          [] branch = "join" ->
               [pc |-> "await", role |-> branch, promise |-> buildPromise,
                seen |-> graphState, result |-> NoOutcome]
          [] branch = "failed" ->
               [pc |-> "done", role |-> branch, promise |-> NullRef,
                seen |-> graphState, result |-> Returned(NullRef)]
          [] OTHER ->
               [pc |-> "await", role |-> "start",
                promise |-> Len(builds) + 1, seen |-> graphState,
                result |-> NoOutcome]

\* What the same call does to the store.
EnterGetOrBuild(dimension) ==
    IF getOrBuildBranch(graphState, graphInstance, buildPromise) = "start"
    THEN StartBuild(dimension)
    ELSE UNCHANGED storeVars

GetOrBuild(c, dimension) ==
    /\ c \in DirectCallers
    /\ dimension \in Dims \cup {NoArg}
    /\ mainPc = "library"
    /\ callers[c].pc \in {"idle", "done"}
    /\ callers' = [callers EXCEPT ![c] = CallRecord]
    /\ EnterGetOrBuild(dimension)
    /\ UNCHANGED << batchVars, loadReturn, probe >>
    /\ UNCHANGED << disk, cfg, queries, mainPc, hasGraphData, lanceDb,
                    workers >>

\* The starting call resumes after "await this.buildPromise".
StarterResume(c) ==
    /\ c \in Callers
    /\ callers[c].pc = "await" /\ callers[c].role = "start"
    /\ builds[callers[c].promise].status # "pending"
    /\ CompleteBuild(callers[c].promise)
    /\ callers' = [callers EXCEPT ![c] =
          [@ EXCEPT !.pc = "done",
                    !.result = starterOutcome(builds[callers[c].promise])]]
    /\ UNCHANGED << batchVars, loadReturn, probe >>
    /\ UNCHANGED << disk, cfg, queries, mainPc, hasGraphData, lanceDb,
                    workers >>

\* A call that got the in-flight promise settles with it.
JoinerResume(c) ==
    /\ c \in Callers
    /\ callers[c].pc = "await" /\ callers[c].role = "join"
    /\ builds[callers[c].promise].status # "pending"
    /\ callers' = [callers EXCEPT ![c] =
          [@ EXCEPT !.pc = "done",
                    !.result = joinerOutcome(builds[callers[c].promise])]]
    /\ UNCHANGED << batchVars, loadReturn, probe >>
    /\ UNCHANGED << disk, cfg, config, index, batchSize, graphState,
                    graphInstance, buildPromise, buildError, builds, queries,
                    mainPc, hasGraphData, lanceDb, workers >>

\* ------------------------------------------------------- start-up and main
\* Module level: new GraphStore, load(), hasGraphData; main() up to its
\* await of LanceVectorStore.create.
Startup ==
    /\ mainPc = "boot"
    /\ Load(NoArg)
    /\ hasGraphData' = (loadReturn' = "true" /\ hasData(index'))
    /\ mainPc' = "init"
    /\ UNCHANGED << batchVars, probe >>
    /\ UNCHANGED << disk, cfg, callers, queries, lanceDb, workers >>

\* Variant: main() never starts the build itself.
preloadWanted_Never(enableGraph, hasGraph, preloadGraph) == FALSE

\* if (config.enableGraph && hasGraphData) { if (config.preloadGraph) ...
preloadWanted(enableGraph, hasGraph, preloadGraph) ==
    enableGraph /\ hasGraph /\ preloadGraph

\* main() after LanceDB is connected: the optional fire-and-forget
\* getOrBuildGraphRAG, then the server starts serving.
MainInit ==
    /\ mainPc = "init"
    /\ lanceDb' = TRUE
    /\ mainPc' = "serving"
    /\ IF preloadWanted(cfg.enableGraph, hasGraphData, cfg.preloadGraph)
       THEN /\ callers' = [callers EXCEPT ![0] = CallRecord]
            /\ EnterGetOrBuild(cfg.dimensions)
       ELSE UNCHANGED << storeVars, callers >>
    /\ UNCHANGED << batchVars, loadReturn, probe >>
    /\ UNCHANGED << disk, cfg, queries, hasGraphData, workers >>


\* ----------------------------------------------------- queryIndexTool.execute
NewQuery ==
    [pc |-> "new", mode |-> "auto", useGraph |-> FALSE,
     graphInstance |-> NullRef, seen |-> "none", call |-> NewCall,
     search |-> "none", outcome |-> "none",
     error |-> NoError, results |-> << >>]

\* "Graph search requested but graph is not available."
graphUnavailable(mode) ==
    mode = "graph" /\ (~cfg.enableGraph \/ ~hasGraphData)

\* Variant: mode=auto looks at the graph data only, not at --enable-graph.
resolveUseGraph_IgnoreEnable(mode) ==
    IF mode = "graph" THEN TRUE
    ELSE IF mode = "auto" THEN hasGraphData
    ELSE FALSE

\* Variant: the mode argument is not looked at.
resolveUseGraph_AnyMode(mode) == cfg.enableGraph /\ hasGraphData

\* useGraph as the mode resolution leaves it.
resolveUseGraph(mode) ==
    IF mode = "graph" THEN TRUE
    ELSE IF mode = "auto" THEN cfg.enableGraph /\ hasGraphData
    ELSE FALSE

\* Variant: the catch block rethrows.
onQueryError_Rethrow(rec, err) ==
    [rec EXCEPT !.pc = "done", !.outcome = "raised", !.error = err,
                !.results = << >>]

\* The catch block of execute: log the error, return { results: [] }.
onQueryError(rec, err) ==
    [rec EXCEPT !.pc = "done", !.outcome = "returned", !.error = err,
                !.results = << >>]

\* Variant: a vector hit keeps the chunkIndex of the underlying result.
mapVectorHit_KeepIndex(result) ==
    [text |-> result.text, score |-> result.score,
     chunkIndex |-> IF result.chunkIndex # NoIdx THEN result.chunkIndex
                    ELSE 0]

\* The result shape both searches are mapped to.
mapGraphHit(node) ==
    [text |-> node.text, score |-> node.score, chunkIndex |-> node.chunkIndex]

mapVectorHit(result) ==
    [text |-> result.text, score |-> result.score, chunkIndex |-> 0]

\* graphResults.map(...) and vectorResults.map(...)
mapGraphHits(hits) == [k \in 1 .. Len(hits) |-> mapGraphHit(hits[k])]
mapVectorHits(hits) == [k \in 1 .. Len(hits) |-> mapVectorHit(hits[k])]

\* Variant: the results are returned in the order the search gave them.
sortByScore_Unsorted(seq) == seq

\* results.sort((a, b) => b.score - a.score): stable, highest score first.
RECURSIVE InsertByScore(_, _)
InsertByScore(sorted, r) ==
    IF sorted = << >> THEN << r >>
    ELSE IF Head(sorted).score >= r.score
         THEN << Head(sorted) >> \o InsertByScore(Tail(sorted), r)
         ELSE << r >> \o sorted

RECURSIVE sortByScore(_)
sortByScore(seq) ==
    IF seq = << >> THEN << >>
    ELSE InsertByScore(sortByScore(SubSeq(seq, 1, Len(seq) - 1)),
                       seq[Len(seq)])

\* Variant: a query that finds the build failed still calls the store.
queryGraphBranch_CallOnFailed(state) ==
    IF state = BUILDING THEN "fallback" ELSE "getOrBuild"

\* Variant: a query that finds the build in progress joins it.
queryGraphBranch_JoinBuilding(state) ==
    IF state = FAILED THEN "fallback" ELSE "getOrBuild"

\* Which branch the state check of a graph query takes.
queryGraphBranch(state) ==
    IF state = BUILDING THEN "fallback"
    ELSE IF state = FAILED THEN "fallback"
    ELSE "getOrBuild"

\* execute from its call to its first await: mode resolution, the state
\* check, and either the getOrBuildGraphRAG call or the embed call.
QueryStart(q, mode) ==
    /\ q \in Queries /\ mode \in Modes
    /\ mainPc = "serving"
    /\ queries[q].pc \in {"new", "done"}
    /\ LET rec == [NewQuery EXCEPT !.mode = mode]
       IN  IF graphUnavailable(mode)
           THEN /\ queries' = [queries EXCEPT ![q] =
                      onQueryError(rec, "graph is not available")]
                /\ UNCHANGED storeVars
           ELSE IF ~resolveUseGraph(mode)
           THEN /\ queries' = [queries EXCEPT ![q] = [rec EXCEPT !.pc = "embed"]]
                /\ UNCHANGED storeVars
           ELSE IF queryGraphBranch(graphState) = "fallback"
           THEN /\ queries' = [queries EXCEPT ![q] =
                      [rec EXCEPT !.pc = "embed", !.seen = graphState,
                                  !.useGraph = FALSE]]
                /\ UNCHANGED storeVars
           ELSE /\ queries' = [queries EXCEPT ![q] =
                      [rec EXCEPT !.pc = "awaitGraph", !.seen = graphState,
                                  !.useGraph = TRUE, !.call = CallRecord]]
                /\ EnterGetOrBuild(cfg.dimensions)
    /\ UNCHANGED << batchVars, loadReturn, probe >>
    /\ UNCHANGED << disk, cfg, callers, mainPc, hasGraphData, lanceDb,
                    workers >>

\* Variant: the returned handle is dropped and the query goes to vector search.
afterGetOrBuild_IgnoreHandle(rec, result) ==
    IF result.kind = "raised"
    THEN onQueryError(rec, result.error)
    ELSE [rec EXCEPT !.pc = "embed", !.graphInstance = NullRef,
                     !.useGraph = FALSE]

\* Variant: a null graph instance is treated as a failure of the query.
afterGetOrBuild_FailOnNull(rec, result) ==
    IF result.kind = "raised" \/ result.value = NullRef
    THEN onQueryError(rec, "graph is not available")
    ELSE [rec EXCEPT !.pc = "embed", !.graphInstance = result.value,
                     !.useGraph = TRUE]

\* What execute does with the settled getOrBuildGraphRAG call: a rejection
\* goes to the catch block, a null instance switches useGraph off.
afterGetOrBuild(rec, result) ==
    IF result.kind = "raised"
    THEN onQueryError(rec, result.error)
    ELSE [rec EXCEPT !.pc = "embed", !.graphInstance = result.value,
                     !.useGraph = (result.value # NullRef)]

\* The query resumes after "await graphStore.getOrBuildGraphRAG(...)" and
\* calls embed.
QueryGraphResume(q) ==
    /\ q \in Queries
    /\ queries[q].pc = "awaitGraph"
    /\ LET call == queries[q].call
           settled == IF call.pc = "done" THEN TRUE
                      ELSE builds[call.promise].status # "pending"
           result == IF call.pc = "done" THEN call.result
                     ELSE IF call.role = "start"
                          THEN starterOutcome(builds[call.promise])
                          ELSE joinerOutcome(builds[call.promise])
       IN  /\ settled
           /\ IF call.pc = "await" /\ call.role = "start"
              THEN CompleteBuild(call.promise)
              ELSE UNCHANGED storeVars
           /\ queries' = [queries EXCEPT ![q] =
                 afterGetOrBuild([queries[q] EXCEPT !.call.pc = "done",
                                                   !.call.result = result],
                                 result)]
    /\ UNCHANGED << batchVars, loadReturn, probe >>
    /\ UNCHANGED << disk, cfg, callers, mainPc, hasGraphData, lanceDb,
                    workers >>

\* embed settles; the chosen search is called.
QueryEmbedded(q, embedOk) ==
    /\ q \in Queries /\ embedOk \in BOOLEAN
    /\ queries[q].pc = "embed"
    /\ LET rec == queries[q]
       IN  queries' = [queries EXCEPT ![q] =
             IF ~embedOk THEN onQueryError(rec, "embed failed")
             ELSE IF rec.useGraph /\ rec.graphInstance # NullRef
             THEN [rec EXCEPT !.pc = "search", !.search = "graph"]
             ELSE IF ~lanceDb THEN onQueryError(rec, "LanceDB not initialized")
             ELSE [rec EXCEPT !.pc = "search", !.search = "vector"]]
    /\ UNCHANGED << batchVars, loadReturn, probe >>
    /\ UNCHANGED << disk, cfg, config, index, batchSize, graphState,
                    graphInstance, buildPromise, buildError, builds, callers,
                    mainPc, hasGraphData, lanceDb, workers >>

\* The search settles: map, sort, return; or the catch block.
QuerySearched(q, searchOk) ==
    /\ q \in Queries /\ searchOk \in BOOLEAN
    /\ queries[q].pc = "search"
    /\ LET rec == queries[q]
       IN  \E hits \in (IF rec.search = "graph" THEN GraphHits
                        ELSE VectorHits) :
             queries' = [queries EXCEPT ![q] =
                IF ~searchOk
                THEN onQueryError(rec, IF rec.search = "graph"
                                       THEN "graph query failed"
                                       ELSE "vector query failed")
                ELSE [rec EXCEPT !.pc = "done", !.outcome = "returned",
                                 !.results = sortByScore(
                                     IF rec.search = "graph"
                                     THEN mapGraphHits(hits)
                                     ELSE mapVectorHits(hits))]]
    /\ UNCHANGED << batchVars, loadReturn, probe >>
    /\ UNCHANGED << disk, cfg, config, index, batchSize, graphState,
                    graphInstance, buildPromise, buildError, builds, callers,
                    mainPc, hasGraphData, lanceDb, workers >>

\* ------------------------------------------------------------ specification
\* A run is either the server of index.ts (start-up, main, queries) or a
\* GraphStore used directly through its public methods.
NoProbe == [op |-> "none"]

LibraryConfig ==
    [enableGraph |-> FALSE, preloadGraph |-> FALSE, dimensions |-> 2,
     batchSize |-> NoArg]

\* The fields of a store and of the program around it after construction.
Constructed ==
    /\ config = NullConfig
    /\ index = NullIndex
    /\ batchSize = constructorBatchSize(cfg.batchSize)
    /\ graphState = IDLE
    /\ graphInstance = NullRef
    /\ buildPromise = NullRef
    /\ buildError = NoError
    /\ builds = << >>
    /\ callers = [c \in Callers |-> NewCall]
    /\ queries = [q \in Queries |-> NewQuery]
    /\ hasGraphData = FALSE
    /\ lanceDb = FALSE
    /\ workers = << >>
    /\ chunksCache = EmptyMap
    /\ embeddingsCache = EmptyMap
    /\ batchLog = [chunks |-> EmptyMap, embeddings |-> EmptyMap]
    /\ loadReturn = "none"

Init ==
    /\ disk \in Disks
    /\ \/ mainPc = "boot" /\ cfg \in ServerConfigs
       \/ mainPc = "library" /\ cfg = LibraryConfig
    /\ Constructed
    /\ probe = NoProbe

Next ==
    \/ Startup
    \/ MainInit
    \/ \E r \in BatchSizeArgs : Reload(r)
    \/ BuildGraphInBackground
    \/ \E c \in DirectCallers, d \in Dims \cup {NoArg} : GetOrBuild(c, d)
    \/ \E c \in Callers : StarterResume(c)
    \/ \E c \in Callers : JoinerResume(c)
    \/ \E i \in 1 .. MaxBuilds : BuildAfterCache(i)
    \/ \E i \in 1 .. MaxBuilds : BuildWave(i)
    \/ \E q \in Queries, m \in Modes : QueryStart(q, m)
    \/ \E q \in Queries : QueryGraphResume(q)
    \/ \E q \in Queries, ok \in BOOLEAN : QueryEmbedded(q, ok)
    \/ \E q \in Queries, ok \in BOOLEAN : QuerySearched(q, ok)

Spec == Init /\ [][Next]_vars

\* ------------------------------------------- a store read batch by batch
\* One user of the class: constructor with or without a batch size, load(),
\* getChunks(), getEmbeddings() and getOrBuildGraphRAG(), on directories
\* whose batch files may be missing or unreadable.
BadSets == {{}, {0}}

\* Cache meta files next to a 3-chunk, dimension-2 store: missing, corrupt,
\* valid, and stale in each of the ways loadGraphFromCache checks.
CacheMetas ==
    { NoMeta,
      Meta("unparsable", "none", 0, 0, FALSE, FALSE),
      Meta("meta", "1.0", 2, 3, TRUE, TRUE),
      Meta("meta", "0.9", 2, 3, TRUE, TRUE),
      Meta("meta", "1.0", 0, 3, TRUE, TRUE),
      Meta("meta", "1.0", 2, 51, TRUE, TRUE),
      Meta("meta", "1.0", 2, 3, FALSE, TRUE),
      Meta("meta", "1.0", 2, 3, TRUE, FALSE) }
WrittenSizes == {1, 1000}

BatchDisks ==
    { Disk(TRUE, "ok", 2, "ok", n, w, bc, be) :
        n \in {3, 51}, w \in WrittenSizes, bc \in BadSets, be \in BadSets }
    \cup
    { Disk(TRUE, "missing", 2, "ok", 3, 1, {}, {}),
      Disk(TRUE, "ok", 0, "ok", 3, 1, {}, {}),
      Disk(TRUE, "ok", 3, "ok", 3, 1, {}, {}),
      Disk(TRUE, "ok", 2, "ok", 0, 1, {}, {}),
      Disk(FALSE, "missing", 0, "missing", 0, 1, {}, {}) }
    \cup
    { [Disk(TRUE, "ok", 2, "ok", 3, 1, {}, {})
          EXCEPT !.graphCache = g, !.cacheMeta = m] :
        g \in BOOLEAN, m \in CacheMetas }

BatchConfigs == { [LibraryConfig EXCEPT !.batchSize = a] : a \in BatchSizeArgs }

BatchInit ==
    /\ disk \in BatchDisks
    /\ mainPc = "library" /\ cfg \in BatchConfigs
    /\ Constructed
    /\ probe = NoProbe

BatchNext ==
    \/ \E r \in BatchSizeArgs : Reload(r)
    \/ GetChunks
    \/ GetEmbeddings
    \/ \E d \in Dims \cup {NoArg} : GetOrBuild(1, d)
    \/ StarterResume(1)
    \/ \E i \in 1 .. MaxBuilds : BuildAfterCache(i)
    \/ \E i \in 1 .. MaxBuilds : BuildWave(i)

BatchSpec == BatchInit /\ [][BatchNext]_vars

\* ------------------------------------- a store with its preload worker
\* One library user with load(), buildGraphInBackground and
\* getOrBuildGraphRAG on the same directories; the worker thread reports
\* back at any time.
WorkerInit == BatchInit

WorkerNext ==
    \/ \E r \in BatchSizeArgs : Reload(r)
    \/ BuildGraphInBackground
    \/ \E w \in 1 .. MaxWorkers : WorkerMessage(w)
    \/ \E d \in Dims \cup {NoArg} : GetOrBuild(1, d)
    \/ StarterResume(1)
    \/ \E i \in 1 .. MaxBuilds : BuildAfterCache(i)
    \/ \E i \in 1 .. MaxBuilds : BuildWave(i)

WorkerSpec == WorkerInit /\ [][WorkerNext]_vars

\* ------------------------------------------------- functions on their own
\* The result mapping with its sort, and load() with its batch size, each
\* applied once to an input drawn from a bounded set.
Scores == {0, 3, 5, 9}
GraphIdx == {1, 7}
VectorIdx == {NoIdx, 4}
SizeProbes == {0, 1, 4999, 5000, 5001, 12500, 49999, 50000, 50001,
               199999, 200000, 200001, 1000000}
LoadArgs == {NoArg, 0, 1, 7000}

\* The hit lists of up to MaxHits hits; text stands for the hit's identity.
HitSeqs(Idx) ==
    UNION { { [k \in 1 .. n |->
                  [text |-> k, score |-> sc[k], chunkIndex |-> ix[k]]] :
              sc \in [1 .. n -> Scores], ix \in [1 .. n -> Idx] } :
            n \in 0 .. MaxHits }

SizedDisks ==
    { Disk(TRUE, "ok", 2, "ok", n, 1000, {}, {}) : n \in SizeProbes }

Probes ==
    { [op |-> "graphResults", in |-> h, done |-> FALSE, out |-> << >>] :
        h \in HitSeqs(GraphIdx) }
    \cup
    { [op |-> "vectorResults", in |-> h, done |-> FALSE, out |-> << >>] :
        h \in HitSeqs(VectorIdx) }
    \cup
    { [op |-> "load", in |-> r, done |-> FALSE, out |-> 0] : r \in LoadArgs }

FnInit ==
    /\ probe \in Probes
    /\ disk \in (IF probe.op = "load" THEN SizedDisks
                 ELSE { Disk(FALSE, "missing", 0, "missing", 0, 1000, {}, {}) })
    /\ mainPc = "probe" /\ cfg = LibraryConfig
    /\ Constructed

nonProbeVars ==
    << disk, cfg, config, index, batchSize, graphState, graphInstance,
       buildPromise, buildError, builds, callers, queries, mainPc,
       hasGraphData, lanceDb, workers, batchVars, loadReturn >>

\* graphResults.map(...) followed by results.sort(...)
ProbeGraphResults ==
    /\ probe.op = "graphResults" /\ ~probe.done
    /\ probe' = [probe EXCEPT !.done = TRUE,
                              !.out = sortByScore(mapGraphHits(probe.in))]
    /\ UNCHANGED nonProbeVars

\* vectorResults.map(...) followed by results.sort(...)
ProbeVectorResults ==
    /\ probe.op = "vectorResults" /\ ~probe.done
    /\ probe' = [probe EXCEPT !.done = TRUE,
                              !.out = sortByScore(mapVectorHits(probe.in))]
    /\ UNCHANGED nonProbeVars

\* load(requestedBatchSize?) on a fresh store; out is the number of batches
\* a build would then read.
ProbeLoad ==
    /\ probe.op = "load" /\ ~probe.done
    /\ Load(probe.in)
    /\ probe' = [probe EXCEPT !.done = TRUE,
                              !.out = CeilDiv(index'.chunkCount, batchSize')]
    /\ UNCHANGED batchVars
    /\ UNCHANGED << disk, cfg, callers, queries, mainPc, hasGraphData,
                    lanceDb, workers >>

FnNext == ProbeGraphResults \/ ProbeVectorResults \/ ProbeLoad

FnSpec == FnInit /\ [][FnNext]_vars


\* ------------------------------------------------------------------- claims
\* Every getOrBuildGraphRAG call of the run: the direct ones and the ones
\* the queries made.
AllCalls ==
    {callers[c] : c \in Callers} \cup {queries[q].call : q \in Queries}

InFlight == {k \in AllCalls : k.pc = "await"}

StartersInFlight ==
    Cardinality({c \in Callers :
                    callers[c].pc = "await" /\ callers[c].role = "start"})
    + Cardinality({q \in Queries :
                    queries[q].call.pc = "await"
                    /\ queries[q].call.role = "start"})

VectorResults == {sortByScore(mapVectorHits(h)) : h \in VectorHits}

\* C1: while getOrBuildGraphRAG calls overlap one build, the pipeline has
\* been invoked exactly once and createGraph at most once: Building always
\* comes with its published promise, every call in flight holds that same
\* promise, and at most one of them is the call that started the build.
C1_OverlappingCallsOneBuild ==
    /\ (graphState = BUILDING => buildPromise # NullRef)
    /\ (InFlight # {} =>
          /\ Len(builds) = 1
          /\ builds[1].engineCalls <= 1
          /\ \A k \in InFlight : k.promise = buildPromise
          /\ StartersInFlight <= 1)

\* Two calls wait on one pending build of a store with data: the one that
\* started it and one that joined it.
C1_Witness ==
    /\ hasData(index)
    /\ Len(builds) >= 1 /\ builds[1].status = "pending"
    /\ \E c1, c2 \in Callers :
          /\ callers[c1].pc = "await" /\ callers[c1].role = "start"
          /\ callers[c2].pc = "await" /\ callers[c2].role = "join"

\* C2 (as claimed): all finished calls that overlapped the same build got
\* the identical outcome, also when the build failed.
C2_SameOutcomeForAllCallers ==
    \A k1, k2 \in AllCalls :
        ( /\ k1.pc = "done" /\ k2.pc = "done"
          /\ k1.role \in {"start", "join"} /\ k2.role \in {"start", "join"}
          /\ k1.promise = k2.promise )
        => k1.result = k2.result

\* C3: a query that selected graph search and found the state Building made
\* no getOrBuildGraphRAG call, never waits for the build, is served by the
\* vector search only, and, unless embed or the vector query raised,
\* returns the mapped and sorted vector hits.
C3_BuildingQueryFallsBack ==
    \A q \in Queries :
        queries[q].seen = BUILDING =>
            /\ queries[q].call = NewCall
            /\ queries[q].pc # "awaitGraph"
            /\ ~queries[q].useGraph
            /\ queries[q].search # "graph"
            /\ (queries[q].pc = "done" /\ queries[q].error = NoError =>
                  /\ queries[q].outcome = "returned"
                  /\ queries[q].search = "vector"
                  /\ queries[q].results \in VectorResults)

\* A mode=graph query has returned vector results while the one build is
\* still pending and the store still Building.
C3_Witness ==
    /\ graphState = BUILDING
    /\ Len(builds) = 1 /\ builds[1].status = "pending"
    /\ \E q \in Queries :
          /\ queries[q].mode = "graph" /\ queries[q].seen = BUILDING
          /\ queries[q].pc = "done" /\ queries[q].error = NoError
          /\ queries[q].results \in VectorResults

\* C4: the build state starts at Idle and only ever steps Idle -> Building,
\* Building -> Ready or Building -> Failed.
C4_MonotonicState ==
    /\ graphState = IDLE
    /\ [][ graphState' # graphState =>
             \/ graphState = IDLE /\ graphState' = BUILDING
             \/ graphState = BUILDING /\ graphState' \in {READY, FAILED} ]_vars

\* A store on which preload ran has gone all the way to Ready.
C4_Witness ==
    graphState = READY /\ \E w \in 1 .. Len(workers) : workers[w].started

\* C5: a getOrBuildGraphRAG call that finds Failed returns null at once, and
\* no step taken in Failed changes the state or invokes the pipeline.
C5_FailedIsTerminal ==
    /\ [](\A k \in AllCalls :
            (k.role # "none" /\ k.seen = FAILED) =>
                k.pc = "done" /\ k.role = "failed"
                /\ k.result = Returned(NullRef))
    /\ [][ graphState = FAILED =>
             graphState' = FAILED /\ builds' = builds ]_vars

\* A direct call made after the build failed has returned null.
C5_Witness ==
    /\ graphState = FAILED
    /\ \E c \in DirectCallers :
          /\ callers[c].role = "failed" /\ callers[c].seen = FAILED
          /\ callers[c].result.kind = "null"

\* C6: a getOrBuildGraphRAG call that finds Ready returns the handle the
\* successful build produced, and no step taken in Ready changes the state
\* or the handle, invokes the pipeline or reads a batch.
C6_ReadyServesCachedHandle ==
    /\ [](graphState = READY =>
            /\ graphInstance # NullRef
            /\ builds[buildPromise].value = graphInstance
            /\ \A k \in AllCalls :
                 (k.role # "none" /\ k.seen = READY) =>
                     k.pc = "done" /\ k.role = "ready"
                     /\ k.result = Returned(graphInstance))
    /\ [][ graphState = READY =>
             /\ graphState' = READY
             /\ graphInstance' = graphInstance
             /\ builds' = builds ]_vars

\* A direct call made in Ready has returned the built handle.
C6_Witness ==
    /\ graphState = READY
    /\ \E c \in DirectCallers :
          /\ callers[c].role = "ready" /\ callers[c].seen = READY
          /\ callers[c].result = Returned(graphInstance)

\* C7 (as claimed): after the transition to Ready or to Failed the stored
\* pending future is null.
C7_PromiseReleased ==
    graphState \in {READY, FAILED} => buildPromise = NullRef

\* C7 (amended): after the transition to Ready or to Failed the store still
\* holds the future of that build, now settled; it is not reset to null.
C7_PromiseKept ==
    graphState \in {READY, FAILED} =>
        /\ buildPromise # NullRef
        /\ builds[buildPromise].status # "pending"

\* Both outcomes of a completed build have been reached by some call.
C7_Witness ==
    /\ graphState \in {READY, FAILED}
    /\ \E k \in AllCalls : k.pc = "done" /\ k.role = "start"

\* C8 (as claimed): a finished mode=graph query on a store without graph
\* data has raised an error to its caller.
C8_ForcedGraphNoDataRaises ==
    \A q \in Queries :
        ( /\ queries[q].pc = "done" /\ queries[q].mode = "graph"
          /\ ~hasGraphData )
        => queries[q].outcome = "raised"

\* C9: a finished query for which graph search could not be served (it
\* found Building or Failed, or its getOrBuildGraphRAG call returned null)
\* has returned the mapped and sorted vector hits, unless embed or the
\* vector query itself raised.
GraphNotServed(rec) ==
    \/ rec.seen \in {BUILDING, FAILED}
    \/ rec.call.pc = "done" /\ rec.call.result.kind = "null"

CatchRan(q) ==
    /\ queries'[q] # queries[q]
    /\ queries'[q].pc = "done"
    /\ queries'[q].error # NoError

GraphResults == {sortByScore(mapGraphHits(h)) : h \in GraphHits}

\* C11: a query that selected graph search and found the state Failed made
\* no getOrBuildGraphRAG call at all; such a query, and one whose call
\* returned null, goes on with useGraph off, is served by the vector search
\* only and, unless embed or the vector query raised, returns the mapped and
\* sorted vector hits.
C11_FailedOrNullDowngrades ==
    \A q \in Queries :
        LET rec == queries[q]
            gotNull == rec.call.pc = "done" /\ rec.call.result.kind = "null"
        IN  /\ (rec.seen = FAILED =>
                  rec.call = NewCall /\ rec.pc # "awaitGraph")
            /\ ((rec.seen = FAILED \/ gotNull) =>
                  /\ rec.pc \in {"embed", "search", "done"}
                  /\ ~rec.useGraph
                  /\ rec.graphInstance = NullRef
                  /\ rec.search # "graph"
                  /\ (rec.pc = "done" /\ rec.error = NoError =>
                        /\ rec.outcome = "returned"
                        /\ rec.search = "vector"
                        /\ rec.results \in VectorResults))

\* Both cases have happened in one run: a query whose own lazy build came
\* back null, and a later query that found Failed, each answered with the
\* vector hits.
C11_Witness ==
    /\ graphState = FAILED
    /\ \E q1, q2 \in Queries :
          /\ queries[q1].seen = FAILED /\ queries[q1].pc = "done"
          /\ queries[q1].results \in VectorResults
          /\ queries[q2].seen = IDLE /\ queries[q2].pc = "done"
          /\ queries[q2].call.result.kind = "null"
          /\ queries[q2].results \in VectorResults

\* C12: a query that selected graph search and found Idle or Ready has
\* called getOrBuildGraphRAG; found Idle, it is the call that started the
\* build and it is past its await only once that build has settled; found
\* Ready, its call returned the stored handle and the step started no
\* build.  A graph search is made on the handle the call returned, and a
\* query that got a handle and met no exception returns the mapped and
\* sorted graph hits.
QueryCalledStore(q) ==
    /\ queries'[q] # queries[q]
    /\ queries'[q].pc = "awaitGraph"

C12_IdleOrReadyUsesGetOrBuild ==
    /\ [](\A q \in Queries :
            LET rec == queries[q]
            IN  rec.seen \in {IDLE, READY} =>
                  /\ rec.call.seen = rec.seen
                  /\ rec.call.role = (IF rec.seen = IDLE THEN "start"
                                      ELSE "ready")
                  /\ (rec.seen = IDLE =>
                        /\ rec.call.promise \in 1 .. Len(builds)
                        /\ (rec.pc # "awaitGraph" =>
                              builds[rec.call.promise].status # "pending"))
                  /\ (rec.seen = READY =>
                        rec.call.result.kind = "handle")
                  /\ (rec.search = "graph" =>
                        /\ rec.call.result.kind = "handle"
                        /\ rec.graphInstance = rec.call.result.value)
                  /\ ( ( /\ rec.pc = "done" /\ rec.error = NoError
                         /\ rec.call.result.kind = "handle" )
                       => /\ rec.outcome = "returned"
                          /\ rec.search = "graph"
                          /\ rec.results \in GraphResults ))
    /\ [][ \A q \in Queries :
             QueryCalledStore(q) =>
                 /\ (graphState = IDLE =>
                       /\ Len(builds') = Len(builds) + 1
                       /\ graphState' = BUILDING
                       /\ queries'[q].call.promise = Len(builds'))
                 /\ (graphState = READY => UNCHANGED storeVars) ]_vars

\* One query found Idle, started the build and returned graph hits after it
\* completed; another found Ready and returned graph hits from the same
\* handle.
C12_Witness ==
    /\ graphState = READY
    /\ \E q1, q2 \in Queries :
          /\ queries[q1].seen = IDLE /\ queries[q1].call.role = "start"
          /\ queries[q1].pc = "done"
          /\ queries[q1].results \in GraphResults
          /\ queries[q2].seen = READY /\ queries[q2].call.role = "ready"
          /\ queries[q2].pc = "done"
          /\ queries[q2].results \in GraphResults
          /\ queries[q2].graphInstance = queries[q1].graphInstance

\* Whether the mode resolution of a started query left useGraph true: the
\* state check is entered exactly then.
GraphSelected(rec) == rec.seen # "none"

Mapped(p) ==
    IF p.op = "graphResults" THEN mapGraphHits(p.in) ELSE mapVectorHits(p.in)

ScoresOf(seq) == [k \in 1 .. Len(seq) |-> seq[k].score]

Occurrences(seq, r) == Cardinality({k \in 1 .. Len(seq) : seq[k] = r})

IsPermutation(a, b) ==
    /\ Len(a) = Len(b)
    /\ \A k \in 1 .. Len(a) : Occurrences(a, a[k]) = Occurrences(b, a[k])

NonIncreasing(seq) ==
    \A i, j \in 1 .. Len(seq) : i < j => seq[i].score >= seq[j].score

ResultsProbed == probe.op \in {"graphResults", "vectorResults"} /\ probe.done

\* C14: the results a graph or vector query returns are a permutation of
\* the mapped hits of its search (nothing dropped, nothing duplicated) in
\* non-increasing score order; scores 3, 9, 5 come back as 9, 5, 3.
C14_SortedPermutation ==
    ResultsProbed =>
        /\ IsPermutation(probe.out, Mapped(probe))
        /\ NonIncreasing(probe.out)
        /\ (ScoresOf(probe.in) = << 3, 9, 5 >> =>
              ScoresOf(probe.out) = << 9, 5, 3 >>)

\* The hits with scores 3, 9, 5 have been mapped and sorted.
C14_Witness ==
    /\ ResultsProbed
    /\ ScoresOf(probe.in) = << 3, 9, 5 >>
    /\ ScoresOf(probe.out) = << 9, 5, 3 >>

\* The result made from hit number k of the probe's input.
ResultOf(k) ==
    CHOOSE r \in {probe.out[i] : i \in 1 .. Len(probe.out)} :
        r.text = probe.in[k].text

ConfigFileGood == disk.dir /\ disk.configFile = "ok"
IndexFileGood == disk.dir /\ disk.indexFile = "ok"

\* C16 (as claimed): after load(), hasData() is false whenever config.json
\* is missing, unparsable or of another version.
C16_NoConfigNoData ==
    (loadReturn # "none" /\ ~ConfigFileGood) => ~hasData(index)

\* C16 (amended): after load(), hasData() looks at index.json only: it is
\* true exactly when index.json is present, parses and has chunkCount > 0,
\* whatever config.json is.  With config.json missing, unparsable or of
\* another version it is load() that returns false, and so the server's
\* hasGraphData = load() && hasData() is false.
C16_HasDataLooksAtIndexOnly ==
    loadReturn # "none" =>
        /\ (hasData(index) <=> (IndexFileGood /\ disk.chunkCount > 0))
        /\ (~ConfigFileGood =>
              /\ ~config.loaded
              /\ loadReturn = "false"
              /\ ~hasGraphData)

\* A server has started on a directory with a good index.json of three
\* chunks and no usable config.json.
C16_Witness ==
    /\ mainPc = "serving"
    /\ ~ConfigFileGood /\ IndexFileGood /\ disk.chunkCount > 0
    /\ loadReturn = "false"
    /\ hasData(index) /\ ~hasGraphData

\* C17: load() returns a boolean in every case; it returns true exactly when
\* the directory exists and config.json (version "1.0") and index.json both
\* exist and parse; and a step in which load() ran leaves the build state,
\* the graph handle, the pending future, the build error and the builds as
\* they were.
C17_LoadNeverRaises ==
    /\ [](/\ loadReturn \in {"none", "true", "false"}
          /\ (loadReturn # "none" =>
                (loadReturn = "true" <=> (ConfigFileGood /\ IndexFileGood))))
    /\ [][ ( \/ loadReturn' # loadReturn \/ config' # config
             \/ index' # index \/ batchSize' # batchSize )
           => UNCHANGED << graphState, graphInstance, buildPromise,
                           buildError, builds >> ]_vars

\* load() returned true on a store that had already failed its build for
\* lack of loaded data, and the store is still Failed.
C17_Witness ==
    /\ loadReturn = "true" /\ hasData(index)
    /\ graphState = FAILED
    /\ builds = << NewBuild("fulfilled", NullRef, NoError, "done", 0) >>

\* C18: after load() without an override the batch size depends on
\* chunkCount alone: 1000 below 5000, 5000 below 50000, 10000 below 200000,
\* 20000 from there on; 12500 chunks give 5000 and three batches to read.
C18_AdaptiveBatchSize ==
    (probe.op = "load" /\ probe.done /\ probe.in = NoArg) =>
        /\ batchSize = ( IF index.chunkCount < 5000 THEN 1000
                         ELSE IF index.chunkCount < 50000 THEN 5000
                         ELSE IF index.chunkCount < 200000 THEN 10000
                         ELSE 20000 )
        /\ (index.chunkCount = 12500 => batchSize = 5000 /\ probe.out = 3)

\* load() without an override has run on an index of 12500 chunks.
C18_Witness ==
    /\ probe.op = "load" /\ probe.done /\ probe.in = NoArg
    /\ index.loaded /\ index.chunkCount = 12500
    /\ batchSize = 5000 /\ probe.out = 3

\* C19 (as claimed): once an index is loaded the batch size is the override
\* the store was given, if any, and no later step changes it.
C19_BatchSizeFixed ==
    /\ []((index.loaded /\ cfg.batchSize # NoArg) =>
             batchSize = cfg.batchSize)
    /\ [][ index.loaded => batchSize' = batchSize ]_vars

TouchedOnce(log) ==
    \A b \in DOMAIN log : log[b].touches <= 1 /\ log[b].last = log[b].first

\* C20 (as claimed): no batch file is touched more than once, and every
\* read of a batch returns what the first read returned.
C20_EveryBatchTouchedOnce ==
    TouchedOnce(batchLog.chunks) /\ TouchedOnce(batchLog.embeddings)

\* What the log and the cache of one kind of batch file must agree on.
Memoized(log, cache, files) ==
    /\ DOMAIN cache \subseteq DOMAIN log
    /\ \A b \in DOMAIN log :
          /\ log[b].last = log[b].first
          /\ IF b \in DOMAIN cache
             THEN /\ files[b].ok
                  /\ cache[b] = files[b].records
                  /\ log[b].first = cache[b]
                  /\ log[b].touches = 1
             ELSE /\ ~files[b].ok
                  /\ log[b].first = << >>
                  /\ log[b].touches = log[b].reads

\* C20 (amended): a batch that was read successfully is memoized: every
\* later read returns the records of the first read and does not touch the
\* disk again.  A batch whose file is missing or unreadable is not
\* memoized: every read of it returns no records and goes to the disk
\* again.  No step drops or changes a cached batch.
C20_ReadableBatchesMemoized ==
    /\ [](/\ Memoized(batchLog.chunks, chunksCache,
                      chunkFiles(disk, DOMAIN batchLog.chunks))
          /\ Memoized(batchLog.embeddings, embeddingsCache,
                      embeddingFiles(disk, config,
                                     DOMAIN batchLog.embeddings)))
    /\ [][ /\ \A b \in DOMAIN chunksCache :
                b \in DOMAIN chunksCache' /\ chunksCache'[b] = chunksCache[b]
           /\ \A b \in DOMAIN embeddingsCache :
                /\ b \in DOMAIN embeddingsCache'
                /\ embeddingsCache'[b] = embeddingsCache[b] ]_vars

\* A readable chunk batch has been read twice with one disk access, and
\* an unreadable one twice with two.
C20_Witness ==
    \E b1, b2 \in DOMAIN batchLog.chunks :
        /\ b1 \in DOMAIN chunksCache
        /\ batchLog.chunks[b1].reads >= 2
        /\ batchLog.chunks[b1].touches = 1
        /\ b2 \notin DOMAIN chunksCache
        /\ batchLog.chunks[b2].reads >= 2
        /\ batchLog.chunks[b2].touches = batchLog.chunks[b2].reads


\* ------------------------------------------------ claims on the pipeline
Range(seq) == {seq[k] : k \in 1 .. Len(seq)}
ChunkIds(b) == Range(b.allChunks)
EmbeddingIds(b) == {b.allEmbeddings[k].id : k \in 1 .. Len(b.allEmbeddings)}
BadBatch(bn) ==
    ~chunkFile(disk, bn).ok \/ ~embeddingFile(disk, config, bn).ok

\* C21: a batch of a build with a missing or corrupt chunk file or
\* embedding file is skipped as a whole: none of its records is in the
\* aggregate chunk list and none is in the aggregate vector list.
C21_BadBatchSkippedWhole ==
    \A i \in 1 .. Len(builds) :
        \A k \in 1 .. Len(builds[i].reads) :
            BadBatch(builds[i].reads[k]) =>
                \A id \in Range(BatchRecords(disk, builds[i].reads[k])) :
                    /\ id \notin ChunkIds(builds[i])
                    /\ id \notin EmbeddingIds(builds[i])


DimensionUnset(b) == b.error = "Graph dimension not set"

\* The step is the call that starts a build on a store with data whose
\* effective dimension is zero.
C22_StartsWithZero ==
    /\ Len(builds') = Len(builds) + 1
    /\ hasData(index) /\ config.loaded /\ index.loaded
    /\ builds'[Len(builds')].dim = 0

C22_AbortedAtOnce ==
    LET b == builds'[Len(builds')]
    IN  /\ b.status = "rejected" /\ DimensionUnset(b)
        /\ b.cacheReads = 0 /\ b.reads = << >> /\ b.engineCalls = 0
        /\ batchVars' = batchVars
        /\ graphState' = BUILDING

\* The step is the starting call resuming on such a build.
C22_ResumesOnZero(c) ==
    /\ callers[c].pc = "await" /\ callers[c].role = "start"
    /\ callers'[c].pc = "done"
    /\ DimensionUnset(builds[callers[c].promise])

C22_NoIO ==
    \A i \in 1 .. Len(builds) :
        DimensionUnset(builds[i]) =>
            /\ builds[i].pc = "done" /\ builds[i].dim = 0
            /\ builds[i].cacheReads = 0 /\ builds[i].batchesRead = 0
            /\ builds[i].reads = << >> /\ builds[i].engineCalls = 0

\* C22: a build whose effective dimension (override, else stored) is zero
\* is rejected in the call that starts it, with no cache lookup, no batch
\* read and no engine call then or later; the starting call leaves the
\* store Failed (from Building) and returns null.
C22_ZeroDimensionAborts ==
    [][ /\ C22_StartsWithZero => C22_AbortedAtOnce
        /\ \A c \in Callers :
              C22_ResumesOnZero(c) =>
                  /\ graphState = BUILDING /\ graphState' = FAILED
                  /\ callers'[c].result = Returned(NullRef)
        /\ C22_NoIO' ]_vars

\* Both sources of the zero have been seen: a build aborted with a zero
\* override on a store whose stored dimension is not zero, or with the
\* stored zero, and its caller has null.
C22_Witness ==
    /\ graphState = FAILED
    /\ callers[1].pc = "done" /\ callers[1].role = "start"
    /\ callers[1].result = Returned(NullRef)
    /\ DimensionUnset(builds[callers[1].promise])
    /\ config.dimension # 0

C22_WitnessStored ==
    /\ graphState = FAILED
    /\ callers[1].pc = "done" /\ callers[1].role = "start"
    /\ DimensionUnset(builds[callers[1].promise])
    /\ config.dimension = 0


\* C23: a step of buildGraphInBackground or of its worker (the call itself,
\* the arrival of the worker's result) assigns no field of the store:
\* build state, graph handle, pending promise, build error, pipeline runs
\* and batch caches are what they were.
C23_PreloadLeavesStore ==
    [][ workers' # workers =>
            /\ graphState' = graphState
            /\ graphInstance' = graphInstance
            /\ buildPromise' = buildPromise
            /\ buildError' = buildError
            /\ builds' = builds
            /\ batchVars' = batchVars ]_vars

\* A worker started on the Idle store has built its graph and reported
\* success; the store is still Idle and has no handle.
C23_Witness ==
    \E w \in 1 .. Len(workers) :
        /\ workers[w].seen = IDLE /\ workers[w].started
        /\ workers[w].pc = "done" /\ workers[w].result.success
        /\ graphState = IDLE /\ graphInstance = NullRef
        /\ buildPromise = NullRef


\* The step is a buildGraphInBackground call on a store that is not Idle.
C24_CalledNotIdle ==
    /\ Len(workers') = Len(workers) + 1
    /\ graphState \in {BUILDING, READY, FAILED}

\* C24: buildGraphInBackground called in Building, Ready or Failed starts
\* no worker thread and no build, and every field of the store is what it
\* was before the call.
C24_PreloadNoOpUnlessIdle ==
    [][ C24_CalledNotIdle =>
            /\ ~workers'[Len(workers')].started
            /\ workers'[Len(workers')].pc = "none"
            /\ UNCHANGED << config, index, batchSize, graphState,
                            graphInstance, buildPromise, buildError, builds,
                            chunksCache, embeddingsCache >> ]_vars

\* The call has been made while a build was in flight on a loaded store ...
C24_Witness ==
    \E w \in 1 .. Len(workers) :
        /\ workers[w].seen = BUILDING /\ ~workers[w].started
        /\ hasData(index) /\ config.loaded

\* ... and on a Ready and on a Failed store.
C24_WitnessReady ==
    \E w \in 1 .. Len(workers) :
        workers[w].seen = READY /\ ~workers[w].started /\ graphState = READY

C24_WitnessFailed ==
    \E w \in 1 .. Len(workers) :
        /\ workers[w].seen = FAILED /\ ~workers[w].started
        /\ hasData(index) /\ config.loaded


\* The server runs with --enable-graph --preload-graph on a directory with
\* graph data, and main() is past its start-up.
EagerPreload ==
    /\ mainPc = "serving"
    /\ cfg.enableGraph /\ cfg.preloadGraph /\ hasGraphData

\* C25: with the fire-and-forget getOrBuildGraphRAG call of main(), the
\* server is serving as soon as the call is made; the build belongs to
\* that call and no query ever starts one; a query that selected graph
\* search while the build was pending is answered by the vector search;
\* the store is Ready only through the start-up call, and a query that
\* then selects graph search gets the handle and is answered by the graph
\* search.
C25_EagerPreloadServes ==
    /\ (callers[0].role # "none" => mainPc = "serving")
    /\ (EagerPreload =>
          /\ callers[0].role = "start" /\ callers[0].promise = 1
          /\ Len(builds) = 1
          /\ graphState # IDLE
          /\ (graphState = READY =>
                /\ callers[0].pc = "done"
                /\ callers[0].result = Returned(graphInstance))
          /\ \A q \in Queries :
                LET rec == queries[q]
                    answered == rec.pc = "done" /\ rec.error = NoError
                IN  /\ rec.call.role # "start"
                    /\ (rec.seen = BUILDING =>
                          /\ rec.pc # "awaitGraph" /\ rec.search # "graph"
                          /\ (answered => rec.search = "vector"))
                    /\ (rec.seen = READY =>
                          /\ rec.call.role = "ready"
                          /\ rec.call.result = Returned(graphInstance)
                          /\ (answered => rec.search = "graph")))

\* One run of the server: a query answered by the vector search while the
\* start-up build was pending, the build succeeded, and a later query
\* answered by the graph search.
C25_Witness ==
    /\ EagerPreload /\ graphState = READY
    /\ \E q1, q2 \in Queries :
          /\ queries[q1].seen = BUILDING /\ queries[q1].pc = "done"
          /\ queries[q1].error = NoError /\ queries[q1].search = "vector"
          /\ queries[q2].seen = READY /\ queries[q2].pc = "done"
          /\ queries[q2].error = NoError /\ queries[q2].search = "graph"


\* The batch reads build i has made so far.
ReadsOf(bs, i) == IF i \in 1 .. Len(bs) THEN Len(bs[i].reads) ELSE 0

\* C26: control is yielded at every batch read of a build: no
\* run-to-completion segment of the program contains more than one batch
\* read of the same build.
C26_YieldAtEveryBatchRead ==
    [][ \A i \in 1 .. Len(builds') :
            ReadsOf(builds', i) <= ReadsOf(builds, i) + 1 ]_vars


\* What the files of batch bn give a reader: their records, or nothing
\* when the file is missing or unreadable.
ChunksOnDisk(bn) ==
    IF chunkFile(disk, bn).ok THEN chunkFile(disk, bn).records ELSE << >>
EmbeddingsOnDisk(bn) ==
    IF embeddingFile(disk, config, bn).ok
    THEN embeddingFile(disk, config, bn).records ELSE << >>

\* Batches 0 .. m - 1 one after the other.
RECURSIVE ChunksUpTo(_)
ChunksUpTo(m) ==
    IF m = 0 THEN << >> ELSE ChunksUpTo(m - 1) \o ChunksOnDisk(m - 1)

RECURSIVE EmbeddingsUpTo(_)
EmbeddingsUpTo(m) ==
    IF m = 0 THEN << >> ELSE EmbeddingsUpTo(m - 1) \o EmbeddingsOnDisk(m - 1)

Increasing(ids) ==
    \A j, k \in 1 .. Len(ids) : j < k => ids[j] < ids[k]

\* The batches of build b whose results are in the aggregate lists.
Appended(b) == Len(b.reads) - Len(b.waveResults)

\* C27: at every point of a build the aggregate chunk list and the
\* aggregate vector list are the records of batch 0, batch 1, ... up to
\* the last batch appended, in that order, hence in increasing global
\* record number; when the graph engine is called every batch up to the
\* last one has been appended.
C27_AppendedInBatchOrder ==
    \A i \in 1 .. Len(builds) :
        LET b == builds[i]
        IN  /\ b.allChunks = ChunksUpTo(Appended(b))
            /\ b.allEmbeddings = EmbeddingsUpTo(Appended(b))
            /\ Increasing(b.allChunks)
            /\ Increasing([k \in 1 .. Len(b.allEmbeddings) |->
                              b.allEmbeddings[k].id])
            /\ (b.engineCalls > 0 => Appended(b) = b.totalBatches)

\* The engine has been called by a build of two waves with every record
\* of the store in the lists.
C27_Witness ==
    \E i \in 1 .. Len(builds) :
        /\ builds[i].engineCalls = 1
        /\ builds[i].totalBatches > PARALLEL_BATCH_LIMIT
        /\ Len(builds[i].allChunks) = index.chunkCount
        /\ Len(builds[i].allEmbeddings) = index.chunkCount


\* The reads of build b that have been made and not yet appended.
InFlightReads(b) == Len(b.waveResults)

C28_Waves ==
    \A i \in 1 .. Len(builds) :
        LET b == builds[i]
        IN  /\ InFlightReads(b) <= PARALLEL_BATCH_LIMIT
            /\ b.reads = [k \in 1 .. Len(b.reads) |-> k - 1]
            /\ Len(b.reads) <= b.totalBatches
            /\ (InFlightReads(b) > 0 =>
                  /\ Appended(b) = b.waveStart
                  /\ \A k \in 1 .. InFlightReads(b) :
                        b.waveResults[k].batchNum = b.waveStart + k - 1)
            /\ (b.engineCalls > 0 => Len(b.reads) = b.totalBatches)

C28_Step ==
    \A i \in 1 .. Len(builds) :
        /\ (builds[i].pc = "cache" /\ builds'[i].pc # "cache" =>
              builds'[i].totalBatches = CeilDiv(index.chunkCount, batchSize))
        /\ (Len(builds'[i].reads) > Len(builds[i].reads) =>
              Appended(builds'[i]) = Len(builds[i].reads))

\* C28: the batch reads of a build are 0, 1, 2, ... each once, up to
\* ceil(chunkCount / batchSize) - 1 as computed when the loop begins; at
\* most 50 of them are made and not yet appended, these are consecutive
\* numbers starting at the wave start, and a step that makes new reads
\* finds every earlier read appended.
C28_WavesOfFifty == [] C28_Waves /\ [][C28_Step]_vars

\* The second wave of a 51-batch build is in flight, the first fifty
\* batches are appended.
C28_Witness ==
    \E i \in 1 .. Len(builds) :
        /\ builds[i].pc = "wave"
        /\ builds[i].waveStart = PARALLEL_BATCH_LIMIT
        /\ builds[i].totalBatches = PARALLEL_BATCH_LIMIT + 1
        /\ InFlightReads(builds[i]) = 1
        /\ Appended(builds[i]) = PARALLEL_BATCH_LIMIT


\* The step is the arrival of the result of worker w.
WorkerReports(w) ==
    /\ w \in 1 .. Len(workers)
    /\ workers[w].pc = "running" /\ workers'[w].pc = "done"

\* The batch numbers a build of the store reads.
PipelineReads ==
    [k \in 1 .. CeilDiv(index.chunkCount, batchSize) |-> k - 1]

\* C29: the worker thread runs the pipeline of the store: it partitions
\* with the batch size of the store, reads the batch numbers a build of
\* the store reads, and does not fail on a missing or unreadable batch.
C29_WorkerSamePipeline ==
    [][ \A w \in 1 .. MaxWorkers :
            WorkerReports(w) =>
                /\ workers'[w].result.batchSize = batchSize
                /\ workers'[w].result.reads = PipelineReads
                /\ workers'[w].result.error # "batch" ]_vars


\* C30 as stated: Failed always comes with a build error, Ready always
\* with a graph handle.
C30_FailedHasError ==
    /\ (graphState = FAILED => buildError # NoError)
    /\ (graphState = READY => graphInstance # NullRef)

\* C30, amended: Ready always comes with the handle the pipeline returned;
\* Failed comes with the error the pipeline threw when it threw one, and
\* with no error at all when the pipeline returned null.
C30_ErrorOnlyOnException ==
    /\ (graphState = READY =>
          /\ graphInstance # NullRef
          /\ builds[buildPromise].status = "fulfilled"
          /\ graphInstance = builds[buildPromise].value)
    /\ (graphState = FAILED =>
          LET b == builds[buildPromise]
          IN  /\ graphInstance = NullRef
              /\ (b.status = "rejected" =>
                    buildError = b.error /\ buildError # NoError)
              /\ (b.status = "fulfilled" =>
                    b.value = NullRef /\ buildError = NoError))

\* The store has failed on a null pipeline result and holds no error.
C30_Witness ==
    /\ graphState = FAILED /\ buildError = NoError
    /\ builds[buildPromise].status = "fulfilled"
    /\ callers[1].pc = "done" /\ callers[1].result = Returned(NullRef)

\* The store has failed on an exception of the graph engine and holds it.
C30_WitnessException ==
    /\ graphState = FAILED /\ buildError = "createGraph failed"
    /\ builds[buildPromise].engineCalls = 1


CachePaths ==
    {"no cache file", "no meta file", "catch", "stale", "older than data",
     "valid"}

\* C31: whatever the cache file and its meta file hold, loadGraphFromCache
\* returns null, and every build that got past the data check and the
\* dimension check calls createGraph exactly once by the time it ends; no
\* build ends without that call except by one of the two checks.
C31_CacheNeverShortCircuits ==
    \A i \in 1 .. Len(builds) :
        LET b == builds[i]
        IN  /\ b.cached = NullRef
            /\ b.engineCalls <= 1
            /\ (b.cacheReads = 1 =>
                  /\ b.cachePath \in CachePaths
                  /\ (b.pc = "done" => b.engineCalls = 1))
            /\ (b.cacheReads = 0 => b.pc = "done" /\ b.engineCalls = 0)

\* A build that found a valid cache (file, meta of the right version,
\* dimension, threshold and chunk count, newer than the data) has read
\* its batches and called the engine.
C31_Witness ==
    \E i \in 1 .. Len(builds) :
        /\ builds[i].cachePath = "valid"
        /\ builds[i].pc = "done" /\ builds[i].status = "fulfilled"
        /\ builds[i].engineCalls = 1
        /\ Len(builds[i].reads) = builds[i].totalBatches

\* Every return of loadGraphFromCache has been taken by some build.
C31_WitnessStale ==
    \E i \in 1 .. Len(builds) :
        builds[i].cachePath = "stale" /\ builds[i].engineCalls = 1
C31_WitnessCorrupt ==
    \E i \in 1 .. Len(builds) :
        builds[i].cachePath = "catch" /\ builds[i].engineCalls = 1
C31_WitnessOld ==
    \E i \in 1 .. Len(builds) :
        builds[i].cachePath = "older than data" /\ builds[i].engineCalls = 1


\* C32: buildGraphRAGInternal is called at most once in the life of a
\* store: the call is made only in Idle, by the first getOrBuildGraphRAG
\* call, and puts the store in Building; no later call or query, in
\* Building, Ready or Failed, makes another.
C32_PipelineStartedOnce ==
    /\ [](Len(builds) <= 1)
    /\ [][ builds' # builds /\ Len(builds') > Len(builds) =>
              /\ graphState = IDLE /\ graphState' = BUILDING
              /\ builds = << >>
              /\ buildPromise = NullRef /\ buildPromise' = 1 ]_vars

\* One query started the build, the build ended, and a later query got
\* the memoized handle; there is still one pipeline run.
C32_Witness ==
    /\ Len(builds) = 1 /\ builds[1].pc = "done"
    /\ \E q1, q2 \in Queries :
          /\ queries[q1].call.role = "start" /\ queries[q1].call.pc = "done"
          /\ queries[q2].call.role = "ready" /\ queries[q2].call.pc = "done"

\* The same after a failure: a later direct call was refused.
C32_WitnessFailed ==
    /\ Len(builds) = 1 /\ graphState = FAILED
    /\ \E c1, c2 \in DirectCallers :
          /\ callers[c1].role = "start" /\ callers[c1].pc = "done"
          /\ callers[c2].role = "failed"


\* The constructions in progress: worker threads that have not reported
\* yet, and pipeline runs of the store that have not settled.
WorkersRunning ==
    Cardinality({w \in 1 .. Len(workers) : workers[w].pc = "running"})
BuildsPending ==
    Cardinality({i \in 1 .. Len(builds) : builds[i].status = "pending"})

\* C33: at most one graph construction is in progress for a store,
\* counting the worker threads of buildGraphInBackground and the pipeline
\* runs of getOrBuildGraphRAG together.
C33_OneConstructionAtATime == WorkersRunning + BuildsPending <= 1


\* The lists of build b pair every chunk with its own embedding.
Aligned(b) ==
    /\ Len(b.allChunks) = Len(b.allEmbeddings)
    /\ \A k \in 1 .. Len(b.allChunks) :
          b.allEmbeddings[k].id = b.allChunks[k]

\* C34: the chunk list and the vector list a build hands to createGraph
\* have the same length, and the k-th vector is the embedding of the k-th
\* chunk, whatever batch files are missing or unreadable.
C34_ListsAligned ==
    \A i \in 1 .. Len(builds) :
        builds[i].engineCalls > 0 => Aligned(builds[i])


\* Every batch file of the directory is present and readable.
AllFilesGood == disk.badChunks = {} /\ disk.badEmbeddings = {}

\* The batch files the writer left: partitions of disk.batchSize records.
FilesWritten == CeilDiv(disk.chunkCount, disk.batchSize)

\* Build b partitioned with the batch size load() picks without override.
AdaptiveBuild(b) ==
    b.totalBatches =
        CeilDiv(index.chunkCount, getOptimalBatchSize(index.chunkCount, NoArg))

\* C35: on a directory with all batch files present, a build that runs
\* with the batch size of load() (no override) reads every batch file and
\* hands chunkCount chunks and chunkCount vectors to createGraph, whatever
\* partition size the files were written with.
C35_EveryRecordHandedOver ==
    \A i \in 1 .. Len(builds) :
        (builds[i].engineCalls > 0 /\ AllFilesGood /\ AdaptiveBuild(builds[i]))
        => /\ Len(builds[i].reads) = FilesWritten
           /\ Len(builds[i].allChunks) = index.chunkCount
           /\ Len(builds[i].allEmbeddings) = index.chunkCount


\* C36: every vector a build hands to createGraph has as many components
\* as the dimension the GraphRAG was constructed with (the override, else
\* the stored dimension).
C36_DecodedWithEngineDimension ==
    \A i \in 1 .. Len(builds) :
        builds[i].engineCalls > 0 =>
            \A k \in 1 .. Len(builds[i].allEmbeddings) :
                builds[i].allEmbeddings[k].dim = builds[i].dim


\* C37: between any two segments of the program the store is Ready
\* exactly when it holds a graph handle, it is Building only with a build
\* promise recorded (one of the pipeline runs), and it holds a build error
\* only in Failed.
C37_FieldsMatchState ==
    /\ (graphState = READY <=> graphInstance # NullRef)
    /\ (graphState = BUILDING =>
          buildPromise # NullRef /\ buildPromise \in 1 .. Len(builds))
    /\ (buildError # NoError => graphState = FAILED)
    /\ (graphState = IDLE =>
          graphInstance = NullRef /\ buildPromise = NullRef)

\* Failed with the error of the build, after a join on the same promise.
C37_Witness ==
    /\ graphState = FAILED /\ buildError # NoError
    /\ graphInstance = NullRef
    /\ \E k \in AllCalls : k.role = "join"

C37_WitnessReady ==
    /\ graphState = READY /\ graphInstance # NullRef
    /\ buildError = NoError

\* Building while the recorded promise has already settled: the starting
\* call has not resumed yet.
C37_WitnessBuilding ==
    /\ graphState = BUILDING
    /\ builds[buildPromise].status # "pending"


\* A query of this mode cannot use the graph: mode=vector, or the server
\* runs without --enable-graph, or there is no graph data.
VectorOnly(mode) ==
    mode = "vector" \/ ~cfg.enableGraph \/ ~hasGraphData

\* C38: no step of a query with mode=vector, and no step of any query
\* on a server without --enable-graph or without graph data, calls
\* getOrBuildGraphRAG or changes the build state, the graph handle, the
\* build promise, the build error or the pipeline runs.
C38_VectorQueryLeavesStore ==
    [][ \A q \in Queries :
            (queries'[q] # queries[q] /\ VectorOnly(queries'[q].mode)) =>
                /\ queries'[q].call = NewCall
                /\ queries'[q].pc # "awaitGraph"
                /\ ~queries'[q].useGraph
                /\ queries'[q].search # "graph"
                /\ UNCHANGED << graphState, graphInstance, buildPromise,
                                buildError, builds >> ]_vars

\* A mode=vector query has been answered next to a store that another
\* query made Ready ...
C38_Witness ==
    /\ graphState = READY
    /\ \E q1, q2 \in Queries :
          /\ queries[q1].mode = "vector" /\ queries[q1].pc = "done"
          /\ queries[q1].search = "vector"
          /\ queries[q1].results \in VectorResults
          /\ queries[q2].call.role = "start"

\* ... a mode=auto query with graph data on a server without
\* --enable-graph, and a mode=graph query there, have ended with the
\* store still Idle.
C38_WitnessDisabled ==
    /\ ~cfg.enableGraph /\ hasGraphData /\ graphState = IDLE
    /\ \E q1, q2 \in Queries :
          /\ queries[q1].mode = "auto" /\ queries[q1].pc = "done"
          /\ queries[q1].search = "vector"
          /\ queries[q2].mode = "graph" /\ queries[q2].pc = "done"


\* The store has nothing to build from: no index (load() not called, or
\* it found none), an index with no chunks, or no config.
NoData == ~index.loaded \/ index.chunkCount = 0 \/ ~config.loaded

\* The result of a pipeline run that stopped at the data check.
NullBuild(b) ==
    /\ b.pc = "done" /\ b.status = "fulfilled" /\ b.value = NullRef
    /\ b.cacheReads = 0 /\ b.reads = << >> /\ b.engineCalls = 0

C39_StartsWithoutData ==
    Len(builds') = Len(builds) + 1 /\ NoData

C39_ResumesOnNull(c) ==
    /\ callers[c].pc = "await" /\ callers[c].role = "start"
    /\ callers'[c].pc = "done"
    /\ NullBuild(builds[callers[c].promise])

\* C39: getOrBuildGraphRAG on a store without data gets null from the
\* pipeline in the call itself, with no cache lookup, no batch read and no
\* engine call; the starting call then leaves the store Failed and returns
\* null; from Failed no step, load() included, changes the state or starts
\* a pipeline run, and every call that finds Failed returns null.
C39_NoDataFailsForGood ==
    [][ /\ C39_StartsWithoutData =>
              /\ NullBuild(builds'[Len(builds')])
              /\ batchVars' = batchVars
        /\ \A c \in Callers :
              C39_ResumesOnNull(c) =>
                  /\ graphState' = FAILED /\ graphInstance' = NullRef
                  /\ callers'[c].result = Returned(NullRef)
        /\ (graphState = FAILED =>
              /\ graphState' = FAILED /\ builds' = builds
              /\ \A c \in Callers :
                    callers'[c] # callers[c] =>
                        callers'[c].result = Returned(NullRef)) ]_vars

\* The store failed for want of data (getOrBuildGraphRAG before load()),
\* load() has since succeeded on a directory with data, and a later
\* getOrBuildGraphRAG call was refused.
C39_Witness ==
    /\ graphState = FAILED
    /\ Len(builds) = 1 /\ NullBuild(builds[1])
    /\ loadReturn = "true" /\ ~NoData
    /\ callers[1].pc = "done" /\ callers[1].role = "failed"
    /\ callers[1].result = Returned(NullRef)

\* The same with an index of no chunks, and with a load() that returned
\* false.
C39_WitnessEmpty ==
    /\ graphState = FAILED /\ NullBuild(builds[1])
    /\ index.loaded /\ index.chunkCount = 0 /\ config.loaded

C39_WitnessLoadFalse ==
    /\ graphState = FAILED /\ NullBuild(builds[1])
    /\ loadReturn = "false"

====
